---- MODULE Spec2Model ----
(***************************************************************************)
(* Model of src/app.py, the command-line audio/video cutter.               *)
(*                                                                         *)
(* Text is a sequence of one-character strings.  A Python float is a       *)
(* record [k, v]: k = "fin" with v an integer number of ticks (one tick is *)
(* 1/(1000*TicksPerMs) second), or k = "nan", "inf", "ninf"; None is       *)
(* k = "none".  float() rounds a decimal literal to the nearest tick, as   *)
(* the interpreter rounds it to the nearest double.                        *)
(***************************************************************************)
EXTENDS Integers, Sequences, FiniteSets, TLC

\* ------------------------------------------------------------------ bounds
\* ticks per millisecond: the resolution of the modelled floats
TicksPerMs == 2
\* longest text enumerated exhaustively for parse_time
MaxLen == 4
\* largest offset, in ticks, around each sampled time for the round trip
MaxOff == 4

TicksPerSec == 1000 * TicksPerMs

\* ------------------------------------------------------------- float values
Fin(n) == [k |-> "fin", v |-> n]
NaN == [k |-> "nan", v |-> 0]
PosInf == [k |-> "inf", v |-> 0]
NegInf == [k |-> "ninf", v |-> 0]
None == [k |-> "none", v |-> 0]

\* a * c for an integer constant c > 0
FMul(a, c) == IF a.k = "fin" THEN Fin(a.v * c) ELSE a

FAdd(a, b) ==
  IF a.k = "nan" \/ b.k = "nan" THEN NaN
  ELSE IF a.k = "fin" /\ b.k = "fin" THEN Fin(a.v + b.v)
  ELSE IF a.k = "fin" THEN b
  ELSE IF b.k = "fin" THEN a
  ELSE IF a.k = b.k THEN a
  ELSE NaN

FNeg(a) ==
  IF a.k = "fin" THEN Fin(0 - a.v)
  ELSE IF a.k = "inf" THEN NegInf
  ELSE IF a.k = "ninf" THEN PosInf
  ELSE a

FSub(a, b) == FAdd(a, FNeg(b))

\* a < b; every comparison with nan is False
FLt(a, b) ==
  IF a.k = "nan" \/ b.k = "nan" THEN FALSE
  ELSE IF a.k = "fin" /\ b.k = "fin" THEN a.v < b.v
  ELSE IF a.k = b.k THEN FALSE
  ELSE a.k = "ninf" \/ b.k = "inf"

FLe(a, b) ==
  IF a.k = "nan" \/ b.k = "nan" THEN FALSE
  ELSE FLt(a, b) \/ a = b

\* bool(x) of an Optional[float]: None and 0.0 are falsy, nan is truthy
Truthy(a) == ~(a.k = "none" \/ (a.k = "fin" /\ a.v = 0))

\* --------------------------------------------------------------------- text
DigitChars == <<"0", "1", "2", "3", "4", "5", "6", "7", "8", "9">>

IsDigit(c) == \E i \in 1..Len(DigitChars) : DigitChars[i] = c

DigitVal(c) == (CHOOSE i \in 1..Len(DigitChars) : DigitChars[i] = c) - 1

IsSpace(c) == c \in {" ", "\t", "\n"}

\* the element of a one-element set: {F(v) : v \in {e}} computes e once and
\* names it v, as an assignment to a local variable does
Only(S) == CHOOSE x \in S : TRUE

SetMin(S) == CHOOSE m \in S : \A n \in S : m <= n

SetMax(S) == CHOOSE m \in S : \A n \in S : n <= m

\* str.strip()
Strip(s) ==
  LET idx == {i \in 1..Len(s) : ~IsSpace(s[i])}
  IN IF idx = {} THEN <<>> ELSE SubSeq(s, SetMin(idx), SetMax(idx))

UpperChars == <<"A", "E", "F", "I", "N", "O", "S", "Y">>

LowerChars == <<"a", "e", "f", "i", "n", "o", "s", "y">>

LowerChar(c) ==
  IF \E i \in 1..Len(UpperChars) : UpperChars[i] = c
  THEN LowerChars[CHOOSE i \in 1..Len(UpperChars) : UpperChars[i] = c]
  ELSE c

\* str.lower(), on the letters the model's inputs use
Lower(s) == [i \in 1..Len(s) |-> LowerChar(s[i])]

\* str.split(sep)
RECURSIVE Split(_, _)
Split(s, sep) ==
  IF \A i \in 1..Len(s) : s[i] # sep THEN <<s>>
  ELSE Only({<<SubSeq(s, 1, i - 1)>> \o Split(rest, sep) :
               <<i, rest>> \in {<<j, SubSeq(s, j + 1, Len(s))>> :
                                  j \in {SetMin({k \in 1..Len(s) : s[k] = sep})}}})

\* str.replace(old, new) for one-character old and new
Replace(s, old, new) == [i \in 1..Len(s) |-> IF s[i] = old THEN new ELSE s[i]]

AllDigits(s) == Len(s) > 0 /\ \A i \in 1..Len(s) : IsDigit(s[i])

\* the number the first n digits of s write
RECURSIVE DigitsUpTo(_, _)
DigitsUpTo(s, n) ==
  IF n = 0 THEN 0 ELSE DigitsUpTo(s, n - 1) * 10 + DigitVal(s[n])

DigitsVal(s) == DigitsUpTo(s, Len(s))

RECURSIVE Pow10(_)
Pow10(n) == IF n = 0 THEN 1 ELSE 10 * Pow10(n - 1)

\* re.match(r'^\d+(\.\d+)?$', s)
MatchesDecimal(s) ==
  \/ AllDigits(s)
  \/ \E i \in 2..(Len(s) - 1) :
       /\ s[i] = "."
       /\ AllDigits(SubSeq(s, 1, i - 1))
       /\ AllDigits(SubSeq(s, i + 1, Len(s)))

\* the fraction digits f as ticks, rounded to the nearest tick
FracTicks(f) ==
  IF f = <<>> THEN 0
  ELSE (2 * DigitsVal(f) * TicksPerSec + Pow10(Len(f))) \div (2 * Pow10(Len(f)))

\* float(s): surrounding whitespace, an optional sign, then nan, inf,
\* infinity or a decimal literal (digits, digits., .digits, digits.digits);
\* anything else raises ValueError.  Exponents and digit separators are not
\* modelled: no input of the model holds "e" between digits or "_".
\* The literal whole.frac (either part may be empty, not both):
FloatOfParts(w, f, neg) ==
  IF (w = <<>> \/ AllDigits(w)) /\ (f = <<>> \/ AllDigits(f)) /\ (w # <<>> \/ f # <<>>)
  THEN [ok |-> TRUE,
        val |-> Fin((IF neg THEN -1 ELSE 1) * (DigitsVal(w) * TicksPerSec + FracTicks(f)))]
  ELSE [ok |-> FALSE, val |-> None]

\* the text after the sign; dots: where it holds a "."
FloatOfBody(body, dots, neg) ==
  IF Lower(body) = <<"n", "a", "n">> THEN [ok |-> TRUE, val |-> NaN]
  ELSE IF Lower(body) \in {<<"i", "n", "f">>, <<"i", "n", "f", "i", "n", "i", "t", "y">>}
    THEN [ok |-> TRUE, val |-> IF neg THEN NegInf ELSE PosInf]
  ELSE IF dots = {} THEN FloatOfParts(body, <<>>, neg)
  ELSE IF Cardinality(dots) = 1
    THEN Only({FloatOfParts(w, f, neg) :
                 w \in {SubSeq(body, 1, SetMin(dots) - 1)},
                 f \in {SubSeq(body, SetMin(dots) + 1, Len(body))}})
  ELSE [ok |-> FALSE, val |-> None]

FloatOfStripped(t) ==
  IF t # <<>> /\ t[1] \in {"+", "-"}
  THEN Only({FloatOfBody(body, dots, t[1] = "-") :
               body \in {Tail(t)},
               dots \in {{i \in 1..(Len(t) - 1) : t[i + 1] = "."}}})
  ELSE Only({FloatOfBody(t, dots, FALSE) : dots \in {{i \in 1..Len(t) : t[i] = "."}}})

ToFloat(s) == Only({FloatOfStripped(t) : t \in {Strip(s)}})

\* ---------------------------------------------------------------- parse_time
\* a returned value, or a ValueError whose message quotes `text`:
\* kind "format" is "Invalid time format: <text>" (line 47), kind "float" is
\* float()'s "could not convert string to float: '<text>'"
Returned(v) == [ok |-> TRUE, val |-> v, kind |-> "value", text |-> <<>>]

Raised(kind, text) == [ok |-> FALSE, val |-> None, kind |-> kind, text |-> text]

\* the M:S branch with minutes counted as a hundred seconds
MinutesSeconds_Hundred(parts, minutes, seconds) ==
  IF ~minutes.ok THEN Raised("float", parts[1])
  ELSE IF ~seconds.ok THEN Raised("float", parts[2])
  ELSE Returned(FAdd(FMul(minutes.val, 100), seconds.val))

\* lines 41-42: minutes, seconds = map(float, parts); the first part that is
\* no float raises
MinutesSeconds(parts, minutes, seconds) ==
  IF ~minutes.ok THEN Raised("float", parts[1])
  ELSE IF ~seconds.ok THEN Raised("float", parts[2])
  ELSE Returned(FAdd(FMul(minutes.val, 60), seconds.val))

\* lines 44-45
HoursMinutesSeconds(parts, hours, minutes, seconds) ==
  IF ~hours.ok THEN Raised("float", parts[1])
  ELSE IF ~minutes.ok THEN Raised("float", parts[2])
  ELSE IF ~seconds.ok THEN Raised("float", parts[3])
  ELSE Returned(FAdd(FAdd(FMul(hours.val, 3600), FMul(minutes.val, 60)), seconds.val))

\* lines 39-47, on the stripped text s and its parts
ParseParts(s, parts) ==
  IF Len(parts) = 2
  THEN Only({MinutesSeconds(parts, minutes, seconds) :
               minutes \in {ToFloat(parts[1])}, seconds \in {ToFloat(parts[2])}})
  ELSE IF Len(parts) = 3
  THEN Only({HoursMinutesSeconds(parts, hours, minutes, seconds) :
               hours \in {ToFloat(parts[1])}, minutes \in {ToFloat(parts[2])},
               seconds \in {ToFloat(parts[3])}})
  ELSE Raised("format", s)

\* lines 35-47, on the stripped text s
ParseStripped(s) ==
  IF MatchesDecimal(s) THEN Returned(ToFloat(s).val)
  ELSE Only({ParseParts(s, parts) : parts \in {Split(s, ":")}})

parse_time(time_str) == Only({ParseStripped(s) : s \in {Strip(time_str)}})

\* --------------------------------------------------------------- format_time
RECURSIVE NatStr(_)
NatStr(n) ==
  IF n < 10 THEN <<DigitChars[n + 1]>>
  ELSE Only({NatStr(q) \o <<DigitChars[(n % 10) + 1]>> : q \in {n \div 10}})

IntStr(n) == IF n < 0 THEN <<"-">> \o NatStr(0 - n) ELSE NatStr(n)

\* left-pad with zeros to width w ("{:0wd}": the sign counts in the width)
ZeroPad(s, w) ==
  IF Len(s) >= w THEN s
  ELSE IF s # <<>> /\ s[1] = "-"
    THEN <<"-">> \o [i \in 1..(w - Len(s)) |-> "0"] \o Tail(s)
  ELSE [i \in 1..(w - Len(s)) |-> "0"] \o s

\* ticks to the nearest millisecond; a tie goes up iff tieUp (the binary
\* double nearest to such a value lies on either side of the tie)
RoundMs(t, tieUp) ==
  LET q == t \div TicksPerMs
      r == t % TicksPerMs
  IN IF 2 * r > TicksPerMs \/ (2 * r = TicksPerMs /\ tieUp) THEN q + 1 ELSE q

\* the time code with the hours cut to two digits
FormatParts_TwoDigitHours(hours, minutes, ms) ==
  [ok |-> TRUE,
   text |-> ZeroPad(IntStr(hours % 100), 2) \o <<":">>
            \o ZeroPad(IntStr(minutes), 2) \o <<":">>
            \o ZeroPad(NatStr(ms \div 1000), 2) \o <<".">>
            \o ZeroPad(NatStr(ms % 1000), 3)]

\* line 54: f"{hours:02d}:{minutes:02d}:{secs:06.3f}", secs already rounded
\* to milliseconds
FormatParts(hours, minutes, ms) ==
  [ok |-> TRUE,
   text |-> ZeroPad(IntStr(hours), 2) \o <<":">>
            \o ZeroPad(IntStr(minutes), 2) \o <<":">>
            \o ZeroPad(NatStr(ms \div 1000), 2) \o <<".">>
            \o ZeroPad(NatStr(ms % 1000), 3)]

\* lines 51-54; int() of nan raises ValueError (inf // 3600 is nan)
format_time(seconds, tieUp) ==
  IF seconds.k # "fin" THEN [ok |-> FALSE, text |-> <<>>]
  ELSE Only({FormatParts(hours, minutes, RoundMs(secs, tieUp)) :
               hours \in {seconds.v \div (3600 * TicksPerSec)},
               minutes \in {(seconds.v % (3600 * TicksPerSec)) \div (60 * TicksPerSec)},
               secs \in {seconds.v % (60 * TicksPerSec)}})

\* ------------------------------------------------------ external programs
\* `ffmpeg -version` as check_ffmpeg runs it: it exits 0, exits non-zero
\* (CalledProcessError) or cannot be started (FileNotFoundError)
FfmpegOutcomes == {"ok", "failed", "notfound"}

check_ffmpeg(o) == o = "ok"

\* ffprobe as get_media_duration runs it: it cannot be started, or it exits
\* with a status and the text it wrote to standard output
ProbeOutputs ==
  { <<"2", ".", "0", "0", "0", "0", "0", "0", "\n">>,
    <<"0", ".", "0", "0", "0", "0", "0", "0", "\n">>,
    <<"-", "1", ".", "0", "0", "0", "0", "0", "0", "\n">>,
    <<"N", "/", "A", "\n">>,
    <<>> }

ProbeOutcomes ==
  {[kind |-> "notfound", rc |-> 0, out |-> <<>>]}
  \cup {[kind |-> "exit", rc |-> 1, out |-> <<>>]}
  \cup {[kind |-> "exit", rc |-> 0, out |-> o] : o \in ProbeOutputs}

\* get_media_duration: CalledProcessError and ValueError give None; a
\* FileNotFoundError from subprocess.run is not caught and leaves the function
get_media_duration(o) ==
  IF o.kind = "notfound" THEN [raised |-> TRUE, val |-> None]
  ELSE IF o.rc # 0 THEN [raised |-> FALSE, val |-> None]
  ELSE Only({[raised |-> FALSE, val |-> IF f.ok THEN f.val ELSE None] :
               f \in {ToFloat(Strip(o.out))}})

\* the ffmpeg trim process as cut_media runs it: subprocess.run raises (the
\* program cannot be started, its output cannot be decoded), or the process
\* exits with a status and a diagnostic stream (rc is -1 where no status was
\* reported).  wrote: whether an output file
\* was left behind; a process that exits 0 has produced the output file.
TrimOutcomes ==
  {[kind |-> "exit", rc |-> 0, stderr |-> e, exc |-> "", wrote |-> TRUE] :
     e \in {"ffmpeg version banner"}}
  \cup {[kind |-> "exit", rc |-> 1, stderr |-> e, exc |-> "", wrote |-> w] :
     e \in {"", "Invalid data found when processing input"}, w \in BOOLEAN}
  \cup {[kind |-> "raise", rc |-> -1, stderr |-> "", exc |-> "[Errno 2] No such file or directory: 'ffmpeg'", wrote |-> FALSE]}

NoTrim == [kind |-> "none", rc |-> -1, stderr |-> "", exc |-> "", wrote |-> FALSE]

\* cut_media deciding by whether the process wrote diagnostics
CutResult_StderrDecides(ss, t, o) ==
  IF ~ss.ok \/ ~t.ok
  THEN [ran |-> FALSE, success |-> FALSE,
        message |-> "cannot convert float NaN to integer", ss |-> <<>>, t |-> <<>>]
  ELSE IF o.kind = "raise"
  THEN [ran |-> TRUE, success |-> FALSE, message |-> o.exc,
        ss |-> ss.text, t |-> t.text]
  ELSE IF o.stderr = ""
  THEN [ran |-> TRUE, success |-> TRUE, message |-> "Success",
        ss |-> ss.text, t |-> t.text]
  ELSE [ran |-> TRUE, success |-> FALSE, message |-> o.stderr,
        ss |-> ss.text, t |-> t.text]

\* cut_media: (success, message) from the formatted times and the process.
\* ss, t: format_time of the start and of the duration (lines 75-76); an
\* exception anywhere in the body is caught at line 93
CutResult(ss, t, o) ==
  IF ~ss.ok \/ ~t.ok
  THEN [ran |-> FALSE, success |-> FALSE,
        message |-> "cannot convert float NaN to integer", ss |-> <<>>, t |-> <<>>]
  ELSE IF o.kind = "raise"
  THEN [ran |-> TRUE, success |-> FALSE, message |-> o.exc,
        ss |-> ss.text, t |-> t.text]
  ELSE IF o.rc = 0
  THEN [ran |-> TRUE, success |-> TRUE, message |-> "Success",
        ss |-> ss.text, t |-> t.text]
  ELSE [ran |-> TRUE, success |-> FALSE, message |-> o.stderr,
        ss |-> ss.text, t |-> t.text]

cut_media(start_time, end_time, o) ==
  Only({CutResult(ss, t, o) :
          ss \in {format_time(start_time, FALSE)},
          t \in {format_time(FSub(end_time, start_time), FALSE)}})

\* get_output_filename: {stem}_cut_{start}_to_{end}{suffix}; cutAt is where
\* the suffix starts (Path.suffix: from the last dot that is not the first
\* character)
OutputName(path, cutAt, a, b) ==
  IF ~a.ok \/ ~b.ok THEN [ok |-> FALSE, name |-> <<>>]
  ELSE [ok |-> TRUE,
        name |-> SubSeq(path, 1, cutAt - 1) \o <<"_", "c", "u", "t", "_">>
                 \o Replace(a.text, ":", "-") \o <<"_", "t", "o", "_">>
                 \o Replace(b.text, ":", "-")
                 \o SubSeq(path, cutAt, Len(path))]

SuffixAt(path) ==
  SetMin({i \in 2..Len(path) : path[i] = "." /\ \A j \in (i + 1)..Len(path) : path[j] # "."}
         \cup {Len(path) + 1})

get_output_filename(path, start_time, end_time) ==
  Only({OutputName(path, cutAt, a, b) :
          cutAt \in {SuffixAt(path)},
          a \in {format_time(start_time, FALSE)},
          b \in {format_time(end_time, FALSE)}})

\* ------------------------------------------------------------- the file system
MovieFile == <<"a", ".", "m", "p", "4">>

ClipsDir == <<"d">>

\* Path.exists() and Path.is_file() of the paths the user can type
FileKind(p) ==
  IF p = MovieFile THEN "file" ELSE IF p = ClipsDir THEN "dir" ELSE "missing"

\* -------------------------------------------------------------- what is typed
PathInputs ==
  { <<>>, <<" ">>, <<"x">>, ClipsDir, MovieFile, <<" ">> \o MovieFile \o <<" ">> }

TimeInputs ==
  { <<>>, <<"a", "b", "c">>, <<"0">>, <<"1">>, <<"2">>, <<"3">>,
    <<"0", ":", "1", ".", "5">>, <<" ", "1", ".", "5", " ">>,
    <<"-", "1", ":", "0">>, <<"1", ":", "-", "5", "8">>,
    <<"1", ":", "2", ":", "3", ":", "4">>,
    <<"n", "a", "n", ":", "0">>, <<"i", "n", "f", ":", "0">> }

ConfirmInputs ==
  { <<"y">>, <<"Y">>, <<"y", "e", "s">>, <<" ", "Y", "e", "s", " ">>,
    <<"Y", "E", "S">>, <<"n">>, <<"N", "o">>, <<>>, <<"y", "y">>,
    <<"y", "e">>, <<"y", " ", "e", "s">> }

\* ---------------------------------------------------------------------- state
VARIABLES
  pc,              \* where main is; the last six values are terminal
  input_path, total_duration, start_time, end_time, output_path, confirm,
  success, message,
  exit_code,       \* the process exit status; -1 while the run goes on
  probeCalls,      \* times ffprobe was run
  trimCalls,       \* times the ffmpeg trim command was run
  trimCmd,         \* the -ss and -t arguments of the trim command
  trimProc,        \* what the trim process did
  outputWritten,   \* whether an output file was written in this run
  typed,           \* the last line the user typed at a prompt
  fpc, arg_text, arg_secs, result   \* the function harness

vars ==
  <<pc, input_path, total_duration, start_time, end_time, output_path, confirm,
    success, message, exit_code, probeCalls, trimCalls, trimCmd, trimProc,
    outputWritten, typed, fpc, arg_text, arg_secs, result>>

mainVars ==
  <<pc, input_path, total_duration, start_time, end_time, output_path, confirm,
    success, message, exit_code, probeCalls, trimCalls, trimCmd, trimProc,
    outputWritten, typed>>

harnessVars == <<fpc, arg_text, arg_secs, result>>

Prompts == {"AwaitFile", "AwaitStart", "AwaitEnd", "AwaitConfirm"}

Running == Prompts \cup {"Launch", "ProbeDuration", "Cutting"}

Terminal == {"Unavailable", "Cancelled", "Done", "Failed", "Interrupted", "Crashed"}

MainIdle ==
  /\ input_path = <<>>
  /\ total_duration = None
  /\ start_time = None
  /\ end_time = None
  /\ output_path = <<>>
  /\ confirm = <<"?">>
  /\ success = FALSE
  /\ message = ""
  /\ exit_code = -1
  /\ probeCalls = 0
  /\ trimCalls = 0
  /\ trimCmd = <<>>
  /\ trimProc = NoTrim
  /\ outputWritten = FALSE
  /\ typed = <<>>

HarnessIdle ==
  /\ fpc = "off"
  /\ arg_text = <<>>
  /\ arg_secs = None
  /\ result = Returned(None)

Init == pc = "Launch" /\ MainIdle /\ HarnessIdle

\* leave main with status code, ending in the terminal state `how`
Leave(how, code) == pc' = how /\ exit_code' = code

\* --------------------------------------------------------------------- main
\* lines 112-116
Launch ==
  /\ pc = "Launch"
  /\ \E o \in FfmpegOutcomes :
       IF check_ffmpeg(o) THEN pc' = "AwaitFile" /\ exit_code' = exit_code
       ELSE Leave("Unavailable", 1)
  /\ UNCHANGED <<input_path, total_duration, start_time, end_time, output_path,
                 confirm, success, message, probeCalls, trimCalls, trimCmd,
                 trimProc, outputWritten, typed>>
  /\ UNCHANGED harnessVars

\* one pass of the loop of lines 119-134 on the stripped text p: the path
\* typed is accepted or the prompt is shown again
FileDecision(p) ==
  IF p = <<>> THEN [accepted |-> FALSE, path |-> p]
  ELSE IF FileKind(p) = "missing" THEN [accepted |-> FALSE, path |-> p]
  ELSE IF FileKind(p) # "file" THEN [accepted |-> FALSE, path |-> p]
  ELSE [accepted |-> TRUE, path |-> p]

file_prompt(raw) == Only({FileDecision(p) : p \in {Strip(raw)}})

EnterPath ==
  /\ pc = "AwaitFile"
  /\ \E raw \in PathInputs :
       /\ typed' = raw
       /\ \E r \in {file_prompt(raw)} :
          IF r.accepted
          THEN input_path' = r.path /\ pc' = "ProbeDuration"
          ELSE UNCHANGED <<input_path, pc>>
  /\ UNCHANGED <<total_duration, start_time, end_time, output_path, confirm,
                 success, message, exit_code, probeCalls, trimCalls, trimCmd,
                 trimProc, outputWritten>>
  /\ UNCHANGED harnessVars

\* lines 137-142: the probe, then the duration line, which formats a truthy
\* duration; an exception of either leaves main
ProbeDuration ==
  /\ pc = "ProbeDuration"
  /\ probeCalls' = probeCalls + 1
  /\ \E o \in ProbeOutcomes :
       \E d \in {get_media_duration(o)} :
          IF d.raised
          THEN Leave("Crashed", 1) /\ UNCHANGED total_duration
          ELSE /\ total_duration' = d.val
               /\ IF Truthy(d.val) /\ ~format_time(d.val, FALSE).ok
                  THEN Leave("Crashed", 1)
                  ELSE pc' = "AwaitStart" /\ exit_code' = exit_code
  /\ UNCHANGED <<input_path, start_time, end_time, output_path, confirm,
                 success, message, trimCalls, trimCmd, trimProc, outputWritten, typed>>
  /\ UNCHANGED harnessVars

\* one pass of the loop of lines 145-164: s is the stripped text, r is
\* parse_time(s), whose ValueError is caught at line 162
StartDecision(s, r, total) ==
  IF s = <<>> THEN [accepted |-> FALSE, val |-> None]
  ELSE IF ~r.ok THEN [accepted |-> FALSE, val |-> None]
  ELSE IF FLt(r.val, Fin(0)) THEN [accepted |-> FALSE, val |-> r.val]
  ELSE IF Truthy(total) /\ FLe(total, r.val) THEN [accepted |-> FALSE, val |-> r.val]
  ELSE [accepted |-> TRUE, val |-> r.val]

start_prompt(raw, total) ==
  Only({StartDecision(s, r, total) : s \in {Strip(raw)}, r \in {parse_time(Strip(raw))}})

EnterStart ==
  /\ pc = "AwaitStart"
  /\ \E raw \in TimeInputs :
       /\ typed' = raw
       /\ \E r \in {start_prompt(raw, total_duration)} :
          IF r.accepted
          THEN start_time' = r.val /\ pc' = "AwaitEnd"
          ELSE UNCHANGED <<start_time, pc>>
  /\ UNCHANGED <<input_path, total_duration, end_time, output_path, confirm,
                 success, message, exit_code, probeCalls, trimCalls, trimCmd,
                 trimProc, outputWritten>>
  /\ UNCHANGED harnessVars

\* one pass of the loop of lines 167-186
EndDecision(s, r, start, total) ==
  IF s = <<>> THEN [accepted |-> FALSE, val |-> None]
  ELSE IF ~r.ok THEN [accepted |-> FALSE, val |-> None]
  ELSE IF FLe(r.val, start) THEN [accepted |-> FALSE, val |-> r.val]
  ELSE IF Truthy(total) /\ FLt(total, r.val) THEN [accepted |-> FALSE, val |-> r.val]
  ELSE [accepted |-> TRUE, val |-> r.val]

end_prompt(raw, start, total) ==
  Only({EndDecision(s, r, start, total) :
          s \in {Strip(raw)}, r \in {parse_time(Strip(raw))}})

\* lines 167-192: an accepted end time is followed by get_output_filename,
\* whose format_time raises out of main for a nan or infinite time
EnterEnd ==
  /\ pc = "AwaitEnd"
  /\ \E raw \in TimeInputs :
       /\ typed' = raw
       /\ \E r \in {end_prompt(raw, start_time, total_duration)} :
          IF ~r.accepted
          THEN UNCHANGED <<end_time, output_path, pc, exit_code>>
          ELSE /\ end_time' = r.val
               /\ \E n \in {get_output_filename(input_path, start_time, r.val)} :
                    IF n.ok
                    THEN /\ output_path' = n.name
                         /\ pc' = "AwaitConfirm"
                         /\ exit_code' = exit_code
                    ELSE Leave("Crashed", 1) /\ UNCHANGED output_path
  /\ UNCHANGED <<input_path, total_duration, start_time, confirm, success,
                 message, probeCalls, trimCalls, trimCmd, trimProc,
                 outputWritten>>
  /\ UNCHANGED harnessVars

\* lines 195-196: the answer as compared, and whether it proceeds
confirm_answer(raw) == Lower(Strip(raw))

\* any answer that starts with "y" proceeds
Proceeds_Prefix(c) == c # <<>> /\ c[1] = "y"

Proceeds(c) == c \in {<<"y">>, <<"y", "e", "s">>}

\* lines 195-198
Confirm ==
  /\ pc = "AwaitConfirm"
  /\ \E raw \in ConfirmInputs :
       /\ typed' = raw
       /\ \E c \in {confirm_answer(raw)} :
          /\ confirm' = c
          /\ IF Proceeds(c)
             THEN pc' = "Cutting" /\ exit_code' = exit_code
             ELSE Leave("Cancelled", 0)
  /\ UNCHANGED <<input_path, total_duration, start_time, end_time, output_path,
                 success, message, probeCalls, trimCalls, trimCmd, trimProc,
                 outputWritten>>
  /\ UNCHANGED harnessVars

\* main without the `return 1` of line 208: a failed cut falls through to
\* `return 0`
Cut_NoReturn ==
  /\ pc = "Cutting"
  /\ \E o \in TrimOutcomes :
       \E r \in {cut_media(start_time, end_time, o)} :
          /\ success' = r.success
          /\ message' = r.message
          /\ trimCalls' = IF r.ran THEN trimCalls + 1 ELSE trimCalls
          /\ trimCmd' = IF r.ran THEN <<r.ss, r.t>> ELSE trimCmd
          /\ trimProc' = IF r.ran THEN o ELSE trimProc
          /\ outputWritten' = (outputWritten \/ (r.ran /\ o.wrote))
          /\ IF r.success
             THEN IF outputWritten' THEN Leave("Done", 0) ELSE Leave("Crashed", 1)
             ELSE Leave("Failed", 0)
  /\ UNCHANGED <<input_path, total_duration, start_time, end_time, output_path,
                 confirm, probeCalls, typed>>
  /\ UNCHANGED harnessVars

\* main trying the cut again after a failure
Cut_Retry ==
  /\ pc = "Cutting"
  /\ \E o \in TrimOutcomes :
       \E r \in {cut_media(start_time, end_time, o)} :
          /\ success' = r.success
          /\ message' = r.message
          /\ trimCalls' = IF r.ran THEN trimCalls + 1 ELSE trimCalls
          /\ trimCmd' = IF r.ran THEN <<r.ss, r.t>> ELSE trimCmd
          /\ trimProc' = IF r.ran THEN o ELSE trimProc
          /\ outputWritten' = (outputWritten \/ (r.ran /\ o.wrote))
          /\ IF r.success
             THEN IF outputWritten' THEN Leave("Done", 0) ELSE Leave("Crashed", 1)
             ELSE IF trimCalls = 0 THEN UNCHANGED <<pc, exit_code>>
             ELSE Leave("Failed", 1)
  /\ UNCHANGED <<input_path, total_duration, start_time, end_time, output_path,
                 confirm, probeCalls, typed>>
  /\ UNCHANGED harnessVars

\* lines 201-210: cut_media, then the report; stat() of the output raises out
\* of main when the file is not there
Cut ==
  /\ pc = "Cutting"
  /\ \E o \in TrimOutcomes :
       \E r \in {cut_media(start_time, end_time, o)} :
          /\ success' = r.success
          /\ message' = r.message
          /\ trimCalls' = IF r.ran THEN trimCalls + 1 ELSE trimCalls
          /\ trimCmd' = IF r.ran THEN <<r.ss, r.t>> ELSE trimCmd
          /\ trimProc' = IF r.ran THEN o ELSE trimProc
          /\ outputWritten' = (outputWritten \/ (r.ran /\ o.wrote))
          /\ IF r.success
             THEN IF outputWritten' THEN Leave("Done", 0) ELSE Leave("Crashed", 1)
             ELSE Leave("Failed", 1)
  /\ UNCHANGED <<input_path, total_duration, start_time, end_time, output_path,
                 confirm, probeCalls, typed>>
  /\ UNCHANGED harnessVars

\* lines 215-217: Ctrl-C while main runs
Interrupt ==
  /\ pc \in Running
  /\ Leave("Interrupted", 1)
  /\ UNCHANGED <<input_path, total_duration, start_time, end_time, output_path,
                 confirm, success, message, probeCalls, trimCalls, trimCmd,
                 trimProc, outputWritten, typed>>
  /\ UNCHANGED harnessVars

\* lines 218-220: input() raises EOFError at a prompt
EndOfInput ==
  /\ pc \in Prompts
  /\ Leave("Crashed", 1)
  /\ UNCHANGED <<input_path, total_duration, start_time, end_time, output_path,
                 confirm, success, message, probeCalls, trimCalls, trimCmd,
                 trimProc, outputWritten, typed>>
  /\ UNCHANGED harnessVars

Next ==
  \/ Launch
  \/ EnterPath
  \/ ProbeDuration
  \/ EnterStart
  \/ EnterEnd
  \/ Confirm
  \/ Cut
  \/ Interrupt
  \/ EndOfInput

Spec == Init /\ [][Next]_vars

\* ------------------------------------------------- the functions on their own
\* parse_time and format_time applied to inputs drawn from bounded sets
Alphabet == {"0", "1", "3", ".", ":", "-", " ", "a"}

LongTexts ==
  { <<"1", ":", "3", "0", ":", "4", "5">>,
    <<" ", "1", ":", "3", "0", ":", "4", "5", "\n">>,
    <<"0", "1", ":", "0", "0", ":", "0", "0", ".", "5">>,
    <<"1", ":", "2", ":", "3", ":", "4">>,
    <<"1", ":", "3", "0", ":", "-", "4", "5">>,
    <<"1", "0", ":", "1", "5", ".", "2", "5">>,
    <<"9", "0", ".", "5">>, <<"1", "0">>, <<"1", ":", "3", "0">>,
    <<"a", "b", "c">>, <<"1", ":", "3", "0", ":", "x">> }

ParseInputs == UNION {[1..n -> Alphabet] : n \in 0..MaxLen} \cup LongTexts

\* sampled times in milliseconds: around 0, a minute, an hour, 100 hours
RoundBases ==
  {0, 1, 500, 12345, 59999, 60000, 90000, 3599999, 3600000, 5445000,
   86399999, 359999999, 360000000, 360060000, 400000123}

RoundTimes ==
  {b * TicksPerMs + d : b \in RoundBases, d \in (0 - MaxOff)..MaxOff} \cap Nat

MainOff == pc = "off" /\ MainIdle

InitParse ==
  /\ MainOff
  /\ fpc = "parse"
  /\ arg_text \in ParseInputs
  /\ arg_secs = None
  /\ result = Returned(None)

InitRound ==
  /\ MainOff
  /\ fpc = "format"
  /\ arg_text = <<>>
  /\ arg_secs \in {Fin(x) : x \in RoundTimes}
  /\ result = Returned(None)

\* text = format_time(seconds)
FormatStep ==
  /\ fpc = "format"
  /\ \E tieUp \in BOOLEAN : arg_text' = format_time(arg_secs, tieUp).text
  /\ fpc' = "parse"
  /\ UNCHANGED <<arg_secs, result>>
  /\ UNCHANGED mainVars

\* result = parse_time(text)
ParseStep ==
  /\ fpc = "parse"
  /\ result' = parse_time(arg_text)
  /\ fpc' = "done"
  /\ UNCHANGED <<arg_text, arg_secs>>
  /\ UNCHANGED mainVars

NextParse == ParseStep

SpecParse == InitParse /\ [][NextParse]_vars

NextRound == FormatStep \/ ParseStep

SpecRound == InitRound /\ [][NextRound]_vars

\* =================================================================== claims
\* the text without its leading and trailing whitespace
CoreOf(s) ==
  LET ns == {i \in 1..Len(s) : s[i] \notin {" ", "\t", "\n"}}
  IN IF ns = {} THEN <<>>
     ELSE [k \in 1..(SetMax(ns) - SetMin(ns) + 1) |-> s[SetMin(ns) + k - 1]]

\* the places that delimit the colon-separated fields of c
Bars(c) == {0, Len(c) + 1} \cup {i \in 1..Len(c) : c[i] = ":"}

\* the k-th colon-separated field of c
Field(c, k) ==
  LET lo == CHOOSE p \in Bars(c) : Cardinality({q \in Bars(c) : q < p}) = k - 1
      hi == CHOOSE p \in Bars(c) : Cardinality({q \in Bars(c) : q < p}) = k
  IN [j \in 1..(hi - lo - 1) |-> c[lo + j]]

FieldCount(c) == Cardinality(Bars(c)) - 1

\* a bare non-negative decimal number: digits, or digits "." digits
Decimal(f) ==
  /\ Len(f) > 0
  /\ \A i \in 1..Len(f) : IsDigit(f[i]) \/ f[i] = "."
  /\ Cardinality({i \in 1..Len(f) : f[i] = "."}) <= 1
  /\ IsDigit(f[1]) /\ IsDigit(f[Len(f)])

\* its value in ticks (exact for up to three fraction digits)
DecimalTicks(f) ==
  LET dot == SetMin({i \in 1..Len(f) : f[i] = "."} \cup {Len(f) + 1})
      whole == SubSeq(f, 1, dot - 1)
      frac == SubSeq(f, dot + 1, Len(f))
  IN DigitsVal(whole) * TicksPerSec
     + (DigitsVal(frac) * TicksPerSec) \div Pow10(Len(frac))

\* one of the three grammars, every component a bare decimal number
WellFormed(c) ==
  /\ FieldCount(c) \in 1..3
  /\ \A k \in 1..FieldCount(c) : Decimal(Field(c, k))

\* N, M*60 + S or H*3600 + M*60 + S
GrammarTicks(c) ==
  IF FieldCount(c) = 1 THEN DecimalTicks(Field(c, 1))
  ELSE IF FieldCount(c) = 2
    THEN DecimalTicks(Field(c, 1)) * 60 + DecimalTicks(Field(c, 2))
  ELSE DecimalTicks(Field(c, 1)) * 3600 + DecimalTicks(Field(c, 2)) * 60
       + DecimalTicks(Field(c, 3))

\* a numeric, non-negative component of M:S or H:M:S
NumericNonNegative(f) == ToFloat(f).ok /\ FLe(Fin(0), ToFloat(f).val)

\* the input is one of the three grammars (bare non-negative decimal, M:S,
\* H:M:S with numeric non-negative components)
InGrammar(c) ==
  \/ Decimal(c)
  \/ /\ FieldCount(c) \in 2..3
     /\ \A k \in 1..FieldCount(c) : NumericNonNegative(Field(c, k))

\* C2: parse_time raises a ValueError that names the input (or the component
\* at fault) for every input outside the three grammars, and returns no value
C2_RejectsIllFormed ==
  (fpc = "done" /\ ~InGrammar(CoreOf(arg_text)))
    => /\ ~result.ok
       /\ \/ result.text = CoreOf(arg_text)
          \/ \E k \in 1..FieldCount(CoreOf(arg_text)) :
               result.text = Field(CoreOf(arg_text), k)

\* C3: for a well-formed input parse_time returns N, M*60 + S or
\* H*3600 + M*60 + S seconds, whatever whitespace surrounds the input
C3_ParsesGrammar ==
  /\ (fpc = "done" /\ WellFormed(CoreOf(arg_text)))
       => result.ok /\ result.val = Fin(GrammarTicks(CoreOf(arg_text)))
  /\ (fpc = "done" /\ CoreOf(arg_text) = <<"1", "0">>)
       => result.val = Fin(10 * TicksPerSec)
  /\ (fpc = "done" /\ CoreOf(arg_text) = <<"1", ":", "3", "0">>)
       => result.val = Fin(90 * TicksPerSec)
  /\ (fpc = "done" /\ CoreOf(arg_text) = <<"1", ":", "3", "0", ":", "4", "5">>)
       => result.val = Fin(5445 * TicksPerSec)

C3_Witness ==
  /\ fpc = "done"
  /\ arg_text = <<" ", "1", ":", "3", "0", ":", "4", "5", "\n">>
  /\ result = Returned(Fin(5445 * TicksPerSec))

\* C4: parse_time(format_time(x)) succeeds and is within one millisecond of x
C4_RoundTrip ==
  fpc = "done"
    => /\ result.ok
       /\ result.val.k = "fin"
       /\ result.val.v - arg_secs.v <= TicksPerMs
       /\ arg_secs.v - result.val.v <= TicksPerMs

\* a time just below a minute, whose seconds are written as 60.000
C4_Witness ==
  /\ fpc = "done"
  /\ arg_secs = Fin(360060 * TicksPerSec - 1)
  /\ arg_text = <<"1", "0", "0", ":", "0", "0", ":", "6", "0", ".", "0", "0", "0">>
  /\ result.ok

\* C1: the confirmation prompt is reached only with 0 <= start < end and,
\* whenever the probe returned a number, start < total and end <= total
C1_ConfirmInBounds ==
  pc = "AwaitConfirm"
    => /\ start_time.k = "fin" /\ end_time.k = "fin"
       /\ 0 <= start_time.v /\ start_time.v < end_time.v
       /\ total_duration.k # "none"
            => /\ total_duration.k = "fin"
               /\ start_time.v < total_duration.v
               /\ end_time.v <= total_duration.v

\* C5: the probe step never raises: whatever the inspection call does, main
\* goes on from ProbeDuration to the start-time prompt
C5_ProbeAdvances ==
  [][(pc = "ProbeDuration" /\ pc' # "Interrupted") => pc' = "AwaitStart"]_vars

\* "y" or "yes" in any case, whitespace around it ignored
IsYes(a) ==
  \/ /\ Len(CoreOf(a)) = 1
     /\ CoreOf(a)[1] \in {"y", "Y"}
  \/ /\ Len(CoreOf(a)) = 3
     /\ CoreOf(a)[1] \in {"y", "Y"}
     /\ CoreOf(a)[2] \in {"e", "E"}
     /\ CoreOf(a)[3] \in {"s", "S"}

Answered == confirm # <<"?">>

\* C6: only "y"/"yes" proceeds to cutting; after any other answer the run has
\* ended with exit code 0, no trim call, no output file and nothing left to do
C6_OnlyYesProceeds ==
  /\ (Answered /\ IsYes(typed)) => pc \in {"Cutting", "Done", "Failed", "Interrupted"}
  /\ (Answered /\ ~IsYes(typed))
       => /\ pc = "Cancelled"
          /\ exit_code = 0
          /\ trimCalls = 0
          /\ ~outputWritten
          /\ ~ENABLED Next
  /\ (trimCalls > 0 \/ pc = "Cutting") => (Answered /\ IsYes(typed))

C6_Witness == pc = "Cancelled" /\ typed = <<"y", " ", "e", "s">> /\ exit_code = 0

\* the external trim call reported success
TrimSucceeded == trimCalls > 0 /\ trimProc.kind = "exit" /\ trimProc.rc = 0

\* C7: the exit code is 0 exactly when the trim succeeded or the user declined
\* at the confirmation prompt, and 1 in every other terminating case
C7_ExitCodes ==
  /\ pc \in Terminal
       => /\ exit_code \in {0, 1}
          /\ exit_code = 0 <=> (TrimSucceeded \/ (Answered /\ ~IsYes(typed)))
  /\ pc \notin Terminal => exit_code = -1

C7_Witness == pc = "Done" /\ exit_code = 0 /\ TrimSucceeded

\* C8 as stated: success iff the exit status is 0, and on every failure the
\* detail is the process's diagnostic stream verbatim
C8_DetailIsStderr ==
  pc \in {"Done", "Failed"}
    => /\ success <=> trimProc.rc = 0
       /\ ~success => message = trimProc.stderr

\* C8 as amended: success iff the process ran and exited 0; after a non-zero
\* exit the detail is its diagnostic stream verbatim, and when running it
\* raised the detail is the exception's text; one trim call at most, and an
\* output the process left behind stays
C8_ResultFromProcess ==
  /\ trimCalls <= 1
  /\ pc \in {"Done", "Failed"}
       => /\ trimCalls = 1
          /\ success <=> (trimProc.kind = "exit" /\ trimProc.rc = 0)
          /\ (~success /\ trimProc.kind = "exit") => message = trimProc.stderr
          /\ trimProc.kind = "raise" => (~success /\ message = trimProc.exc)
          /\ trimProc.wrote => outputWritten

C8_Witness ==
  /\ pc = "Failed"
  /\ trimProc.kind = "exit"
  /\ message = "Invalid data found when processing input"
  /\ outputWritten

\* the edges of the state machine, a prompt's edge to itself apart: the
\* forward edges, and the edges on which the run is abandoned (Ctrl-C, an
\* uncaught exception)
Edges ==
  { <<"Launch", "AwaitFile">>, <<"Launch", "Unavailable">>,
    <<"AwaitFile", "ProbeDuration">>, <<"ProbeDuration", "AwaitStart">>,
    <<"ProbeDuration", "Crashed">>, <<"AwaitStart", "AwaitEnd">>,
    <<"AwaitEnd", "AwaitConfirm">>, <<"AwaitEnd", "Crashed">>,
    <<"AwaitConfirm", "Cutting">>, <<"AwaitConfirm", "Cancelled">>,
    <<"Cutting", "Done">>, <<"Cutting", "Failed">> }
  \cup {<<q, "Interrupted">> : q \in Running}
  \cup {<<q, "Crashed">> : q \in Prompts}

\* C9: main is the linear state machine: the trim call is issued at most
\* once, from Cutting, after a regular file, the probe, a start and an end
\* time were accepted and the user confirmed; no later step changes a value
\* accepted earlier
C9_Linear ==
  [][/\ pc' # pc => <<pc, pc'>> \in Edges
     /\ pc' = pc => pc \in Prompts
     /\ trimCalls' # trimCalls
          => /\ pc = "Cutting" /\ trimCalls = 0 /\ trimCalls' = 1
             /\ FileKind(input_path) = "file"
             /\ probeCalls = 1
             /\ start_time # None /\ end_time # None
             /\ IsYes(typed)
     /\ pc # "AwaitFile" => input_path' = input_path
     /\ pc # "ProbeDuration" => (total_duration' = total_duration /\ probeCalls' = probeCalls)
     /\ pc # "AwaitStart" => start_time' = start_time
     /\ pc # "AwaitEnd" => (end_time' = end_time /\ output_path' = output_path)
     /\ pc # "AwaitConfirm" => confirm' = confirm]_vars

C9_Witness == pc = "Done" /\ trimCalls = 1 /\ FileKind(input_path) = "file"

\* the run with a user who keeps answering: no Ctrl-C, no end of input.  A
\* step that leaves the current state of main (a program step, or an accepted
\* line at a prompt) is taken whenever one stays possible: whether a prompt
\* can accept a line does not change while the prompt is shown again
NextLive ==
  \/ Launch
  \/ EnterPath
  \/ ProbeDuration
  \/ EnterStart
  \/ EnterEnd
  \/ Confirm
  \/ Cut

Progress == NextLive /\ pc' # pc

SpecLive == Init /\ [][NextLive]_vars /\ WF_vars(Progress)

\* C10: no prompt is a dead end: from the start-time prompt, whatever the
\* probe returned, the run reaches the confirmation prompt and then ends in
\* Done, Failed or Cancelled
C10_ReachesConfirm ==
  /\ (pc = "AwaitStart") ~> (pc = "AwaitConfirm")
  /\ (pc = "AwaitConfirm") ~> (pc \in {"Done", "Failed", "Cancelled"})

====
